---- MODULE Spec2Model ----
(***************************************************************************)
(* Model of the backup utility of src/Проект/Пример.py (class              *)
(* BackupSystem): the configuration document in memory and on disk, the    *)
(* source files with their modification times, the backup directory with   *)
(* its temporary and final artifacts, and the full / incremental /         *)
(* restore / list operations, cut into steps at every filesystem write so  *)
(* that a process stop and a source-file modification can fall between     *)
(* any two of them.                                                        *)
(***************************************************************************)
EXTENDS Integers, Sequences, FiniteSets, TLC

\* ------------------------------------------------------------------ bounds
MaxEvents == 5      \* calls, clock ticks, source-file events and restarts, together

\* strftime("%Y%m%d_%H%M%S") has one-second resolution while time.time() and
\* os.path.getmtime() are sub-second floats: TicksPerSecond clock ticks share
\* one timestamp label.
TicksPerSecond == 2

\* ------------------------------------------------------------ source tree
\* Paths are sequences of components.  The default configuration has the
\* single source directory "katyrov".
PA == <<"katyrov", "a">>
PB == <<"katyrov", "sub", "b">>

\* The order in which os.walk yields the files (top-down).
WalkOrder == <<PA, PB>>

Paths == {WalkOrder[i] : i \in 1..Len(WalkOrder)}

NoFile == [mode |-> "absent"]

None == [type |-> "none"]

VARIABLES
    clock,        \* time.time(): the current instant
    files,        \* source tree: path -> NoFile or [mode, mtime, data]
    config,       \* self.config: [last_backup, backup_history]
    disk,         \* backup_config.json: [st |-> "absent"|"partial"|"complete", doc]
    dir_made,     \* does the backup directory exist
    backup_dir,   \* files of the backup directory: name -> NoFile or content
    restore_dir,  \* the directory given to restore_backup
    key,          \* self.key: the Fernet key of this process instance
    pc,           \* position of the running operation
    called,       \* the public operation called last
    kind,         \* backup_type of the running backup
    timestamp,    \* local timestamp (the label of the artifact)
    backup_path,  \* local backup_path / archive_path
    file_list,    \* local all_files / changed_files
    result,       \* what the last call returned or raised
    ncalls,       \* number of calls made
    nenv,         \* number of environment events
    nrestarts,    \* number of process restarts
    touched,      \* was the source tree touched since the last enumeration
    sched         \* set_schedule: position of its loop, the job's next run

vars == <<clock, files, config, disk, dir_made, backup_dir, restore_dir, key, pc,
          called, kind, timestamp, backup_path, file_list, result, ncalls, nenv,
          nrestarts, touched, sched>>

fsvars == <<files, clock, nenv>>
locals == <<kind, timestamp, backup_path, file_list>>

\* ----------------------------------------------------------------- helpers
Labels == 0..(MaxEvents \div TicksPerSecond)

\* The names a file of the backup directory can have: the artifact
\* "тест_<kind>_<label>.zip", create_archive's "<artifact>.temp" and
\* restore_backup's "<artifact>.temp.zip".
Names == [kind : {"full", "inc"}, label : Labels, ext : {"", ".temp", ".temp.zip"}]

Final(bp) == [kind |-> bp.kind, label |-> bp.label, ext |-> ""]
Temp(bp) == [kind |-> bp.kind, label |-> bp.label, ext |-> ".temp"]
RestoreTemp(bp) == [kind |-> bp.kind, label |-> bp.label, ext |-> ".temp.zip"]

\* datetime.now().strftime("%Y%m%d_%H%M%S")
Strftime(t) == t \div TicksPerSecond

\* the default configuration of load_config
DefaultConfig == [last_backup |-> None, backup_history |-> <<>>]

\* os.walk over the source directory: every directory entry that is not a
\* directory, in walk order (no stat of the file is needed to list it).
RECURSIVE Walk(_, _)
Walk(fs, i) ==
    IF i > Len(WalkOrder) THEN <<>>
    ELSE IF fs[WalkOrder[i]] = NoFile THEN Walk(fs, i + 1)
    ELSE <<WalkOrder[i]>> \o Walk(fs, i + 1)

\* os.path.getmtime raises for an entry that cannot be stat'ed.
StatFails(f) == f.mode = "dangling"

\* line 48 with >= in place of >
ChangedSinceInclusive(mtime, last_backup_time) ==
    last_backup_time = None \/ mtime >= last_backup_time.t

\* the test of line 48
ChangedSince(mtime, last_backup_time) ==
    last_backup_time = None \/ mtime > last_backup_time.t

\* get_changed_files: the loop of lines 43-49 over the walk, from entry i on.
\* Returns [raised, list]; the first entry whose getmtime fails raises.
RECURSIVE GetChangedFrom(_, _, _)
GetChangedFrom(fs, since, w) ==
    IF w = <<>> THEN [raised |-> FALSE, list |-> <<>>]
    ELSE IF StatFails(fs[Head(w)]) THEN [raised |-> TRUE, list |-> <<>>]
    ELSE LET rest == GetChangedFrom(fs, since, Tail(w))
         IN  IF rest.raised THEN rest
             ELSE IF ChangedSince(fs[Head(w)].mtime, since)
                  THEN [raised |-> FALSE, list |-> <<Head(w)>> \o rest.list]
                  ELSE rest

\* get_changed_files without the filter of line 48
get_changed_files_unfiltered(fs, since) == GetChangedFrom(fs, None, Walk(fs, 1))

get_changed_files(fs, since) == GetChangedFrom(fs, since, Walk(fs, 1))

\* timestamps are wrapped so that None and an instant compare as records
At(t) == [t |-> t]

\* ---------------------------------------------------------- path algebra
RECURSIVE CommonPrefix(_, _)
CommonPrefix(p, q) ==
    IF p = <<>> \/ q = <<>> \/ Head(p) # Head(q) THEN <<>>
    ELSE <<Head(p)>> \o CommonPrefix(Tail(p), Tail(q))

\* os.path.commonpath(file_list), file_list not empty
RECURSIVE commonpath(_)
commonpath(fl) ==
    IF Len(fl) = 1 THEN fl[1]
    ELSE CommonPrefix(fl[1], commonpath(Tail(fl)))

\* os.path.relpath(p, start) for start a prefix of p: "." when they are equal
relpath(p, start) ==
    IF Len(p) = Len(start) THEN <<".">>
    ELSE SubSeq(p, Len(start) + 1, Len(p))

\* can zipf.write read the file
Readable(f) == f # NoFile /\ f.mode = "ok"

\* the zip members written by the loop of lines 120-123 for the files
\* fl[i..]: [arcname, data]; the loop stops at the first file zipf.write
\* cannot read
RECURSIVE ZipMembers(_, _, _)
ZipMembers(fs, fl, i) ==
    IF i > Len(fl) \/ ~Readable(fs[fl[i]]) THEN <<>>
    ELSE <<[arcname |-> relpath(fl[i], commonpath(fl)), data |-> fs[fl[i]].data]>>
         \o ZipMembers(fs, fl, i + 1)

\* the same with os.path.commonpath(file_list) taken once before the loop:
\* commonpath raises ValueError on an empty list
AllReadableOfSome(fs, fl) == fl # <<>> /\ \A i \in 1..Len(fl) : Readable(fs[fl[i]])

AllReadable(fs, fl) == \A i \in 1..Len(fl) : Readable(fs[fl[i]])

\* a readable regular file written at instant t; its bytes are identified by
\* the file and the number of the write that produced them
NewFile(p, t, n) == [mode |-> "ok", mtime |-> t, data |-> [file |-> p, ver |-> n]]

\* no job is registered and the loop of set_schedule is not running
NotScheduled == [loop |-> "off", interval |-> 0, next_run |-> 0, inflight |-> 0]

\* -------------------------------------------------------------------- Init
\* The state after BackupSystem() on a machine without a configuration
\* document: load_config returns the defaults, the key is fresh, and the
\* source directory holds any subset of the files.
Init ==
    /\ clock = 0
    /\ files \in {[p \in Paths |-> IF here[p] THEN NewFile(p, 0, 0) ELSE NoFile] :
                     here \in [Paths -> BOOLEAN]}
    /\ config = DefaultConfig
    /\ disk = [st |-> "absent"]
    /\ dir_made = FALSE
    /\ backup_dir = [n \in Names |-> NoFile]
    /\ restore_dir = [exists |-> FALSE, files |-> {}]
    /\ key = 1
    /\ pc = "idle"
    /\ called = "none"
    /\ kind = "none"
    /\ timestamp = 0
    /\ backup_path = [kind |-> "none", label |-> 0]
    /\ file_list = <<>>
    /\ result = [tag |-> "none"]
    /\ ncalls = 0
    /\ nenv = 0
    /\ nrestarts = 0
    /\ touched = FALSE
    /\ sched = NotScheduled

\* the events counted against MaxEvents
MayAct == ncalls + nenv + nrestarts + clock < MaxEvents

\* ------------------------------------------------------------- environment
\* The program reads the source tree and the clock in three places only: the
\* enumeration (the step that leaves "idle"), the reading of the files into
\* the archive (the step that leaves "zipping") and time.time() (the step
\* that leaves "persist").  An event of the environment at any other
\* position commutes with the program's steps up to the next of these, so
\* the environment is scheduled at these positions only.
EnvPoint == pc \in {"idle", "zipping", "persist"}

\* time passes
Tick ==
    /\ EnvPoint
    /\ MayAct
    /\ clock' = clock + 1
    /\ UNCHANGED <<touched, files, nenv, config, disk, dir_made, backup_dir, restore_dir, key,
                   pc, called, result, ncalls, nrestarts, locals, sched>>

\* a program of the user creates or rewrites a source file: new bytes,
\* modification time = now
WriteFile(p) ==
    /\ EnvPoint
    /\ MayAct
    /\ nenv' = nenv + 1
    /\ files' = [files EXCEPT ![p] = NewFile(p, clock, nenv + 1)]
    /\ touched' = TRUE
    /\ UNCHANGED <<clock, config, disk, dir_made, backup_dir, restore_dir, key,
                   pc, called, result, ncalls, nrestarts, locals, sched>>

\* a source file becomes unreadable (permission denied: "noread") or its
\* directory entry stays while the file behind it is gone ("dangling": a
\* broken symlink, or a file deleted during the walk)
BreakFile(p, m) ==
    /\ EnvPoint
    /\ MayAct
    /\ files[p] # NoFile
    /\ files[p].mode = "ok"
    /\ nenv' = nenv + 1
    /\ files' = [files EXCEPT ![p].mode = m]
    /\ touched' = TRUE
    /\ UNCHANGED <<clock, config, disk, dir_made, backup_dir, restore_dir, key,
                   pc, called, result, ncalls, nrestarts, locals, sched>>

\* ------------------------------------------------------------ config store
\* load_config, lines 18-28
load_config(d) ==
    IF d.st = "absent" THEN DefaultConfig ELSE d.doc

\* the marker with the time cut to the second of the timestamp label
NewMarkerTruncated(k, now, n) ==
    [type |-> k, time |-> Strftime(now) * TicksPerSecond, files_count |-> n]

\* the marker of lines 67-71 and 100-104
NewMarker(k, now, n) == [type |-> k, time |-> now, files_count |-> n]

\* the history entry without the files_count of line 109
NewEntryNoCount(k, ts, bp, n) ==
    [type |-> k, time |-> ts, path |-> bp, files_count |-> <<>>]

\* the history entry of lines 72-76 (no files_count) and 105-110
NewEntry(k, ts, bp, n) ==
    [type |-> k, time |-> ts, path |-> bp,
     files_count |-> IF k = "full" THEN <<>> ELSE <<n>>]

\* lines 67-76 and 100-110 with the marker set by the first backup only
PersistingFirstMarker(cfg, k, now, ts, bp, n) ==
    [last_backup |-> IF cfg.last_backup = None THEN NewMarker(k, now, n)
                     ELSE cfg.last_backup,
     backup_history |-> Append(cfg.backup_history, NewEntry(k, ts, bp, n))]

\* lines 67-76 and 100-110 with the history assigned instead of appended to
PersistingOverwrite(cfg, k, now, ts, bp, n) ==
    [last_backup |-> NewMarker(k, now, n),
     backup_history |-> <<NewEntry(k, ts, bp, n)>>]

\* lines 67-76 and 100-110: the marker is overwritten, the entry appended
Persisting(cfg, k, now, ts, bp, n) ==
    [last_backup |-> NewMarker(k, now, n),
     backup_history |-> Append(cfg.backup_history, NewEntry(k, ts, bp, n))]

\* ------------------------------------------------------------ the process
Idle == pc = "idle"

CanCall == Idle /\ MayAct

Return(r) ==
    /\ pc' = "idle"
    /\ result' = r

Raised(e) == [tag |-> "raised", exc |-> e]

\* lines 54-63 with the kind taken from the operation that was called
FullEnumerateByCaller(api) ==
    /\ called' = api
    /\ ncalls' = ncalls + 1
    /\ kind' = api
    /\ timestamp' = Strftime(clock)
    /\ backup_path' = [kind |-> IF api = "full" THEN "full" ELSE "inc",
                       label |-> Strftime(clock)]
    /\ dir_made' = TRUE
    /\ file_list' = Walk(files, 1)
    /\ touched' = FALSE
    /\ pc' = "archive"
    /\ result' = [tag |-> "running"]
    /\ UNCHANGED <<fsvars, config, disk, backup_dir, restore_dir, key, nrestarts>>

\* full_backup, lines 54-63: label, path, makedirs, enumeration of every
\* file; `api` is the public operation the caller invoked
FullEnumerate(api) ==
    /\ called' = api
    /\ ncalls' = ncalls + 1
    /\ kind' = "full"
    /\ timestamp' = Strftime(clock)
    /\ backup_path' = [kind |-> "full", label |-> Strftime(clock)]
    /\ dir_made' = TRUE
    /\ file_list' = Walk(files, 1)
    /\ touched' = FALSE
    /\ pc' = "archive"
    /\ result' = [tag |-> "running"]
    /\ UNCHANGED <<fsvars, config, disk, backup_dir, restore_dir, key, nrestarts>>

full_backup ==
    /\ CanCall
    /\ FullEnumerate("full")
    /\ UNCHANGED sched

\* line 84
NoPriorBackup(cfg) == cfg.last_backup = None

\* line 91
NoChanges(changed_files) == changed_files = <<>>

\* incremental_backup, lines 81-96
incremental_backup ==
    /\ CanCall
    /\ IF NoPriorBackup(config)
       THEN FullEnumerate("incremental")
       ELSE LET got == get_changed_files(files, At(config.last_backup.time))
            IN  /\ called' = "incremental"
                /\ ncalls' = ncalls + 1
                /\ touched' = FALSE
                /\ IF got.raised
                   THEN /\ Return(Raised("OSError"))
                        /\ UNCHANGED locals
                   ELSE IF NoChanges(got.list)
                   THEN /\ Return([tag |-> "None"])
                        /\ UNCHANGED locals
                   ELSE /\ kind' = "incremental"
                        /\ timestamp' = Strftime(clock)
                        /\ backup_path' = [kind |-> "inc", label |-> Strftime(clock)]
                        /\ file_list' = got.list
                        /\ pc' = "archive"
                        /\ result' = [tag |-> "running"]
                /\ UNCHANGED <<fsvars, config, disk, dir_made, backup_dir,
                               restore_dir, key, nrestarts>>

\* "incremental" on the command line, lines 204-205
IncrementalCommand ==
    /\ incremental_backup
    /\ UNCHANGED sched

\* --------------------------------------------------------- create_archive
\* contents of a file of the backup directory: enc is the key it is
\* encrypted with (0: plaintext), whole says that the write completed
Content(k, w, z) == [mode |-> "file", enc |-> k, whole |-> w, zip |-> z]

\* what open(path, 'w' / 'wb') leaves before the first write
Truncated(k) == Content(k, FALSE, <<>>)

\* self.cipher.encrypt(data), line 129
Encrypt(k, z) == Content(k, TRUE, z)

ProcessVars == <<key, called, ncalls, nrestarts, touched, sched>>

\* line 119: ZipFile(temp_archive, 'w') creates the temporary file
ZipOpen ==
    /\ pc = "archive"
    /\ backup_dir' = [backup_dir EXCEPT ![Temp(backup_path)] = Truncated(0)]
    /\ pc' = "zipping"
    /\ UNCHANGED <<fsvars, config, disk, dir_made, restore_dir, result, locals,
                   ProcessVars>>

\* a loop that skips the files it cannot read and archives the others
ZipWriteSkipping ==
    /\ pc = "zipping"
    /\ backup_dir' = [backup_dir EXCEPT ![Temp(backup_path)] =
                         Content(0, TRUE,
                                 ZipMembers(files,
                                            SelectSeq(file_list, LAMBDA p : Readable(files[p])),
                                            1))]
    /\ pc' = "encrypt"
    /\ UNCHANGED result
    /\ UNCHANGED <<fsvars, config, disk, dir_made, restore_dir, locals, ProcessVars>>

\* lines 120-123: every file of the list is read and added; an unreadable
\* file raises out of create_archive and of the backup, the with statement
\* closing the temporary archive with the members written so far
ZipWrite ==
    /\ pc = "zipping"
    /\ IF AllReadable(files, file_list)
       THEN /\ backup_dir' = [backup_dir EXCEPT ![Temp(backup_path)] =
                                 Content(0, TRUE, ZipMembers(files, file_list, 1))]
            /\ pc' = "encrypt"
            /\ UNCHANGED result
       ELSE /\ backup_dir' = [backup_dir EXCEPT ![Temp(backup_path)] =
                                 Content(0, FALSE, ZipMembers(files, file_list, 1))]
            /\ Return(Raised("OSError"))
    /\ UNCHANGED <<fsvars, config, disk, dir_made, restore_dir, locals, ProcessVars>>

\* lines 126-131: the temporary archive is read and encrypted, and
\* open(archive_path, 'wb') creates or truncates the artifact
ArtifactOpen ==
    /\ pc = "encrypt"
    /\ backup_dir' = [backup_dir EXCEPT ![Final(backup_path)] = Truncated(key)]
    /\ pc' = "writing"
    /\ UNCHANGED <<fsvars, config, disk, dir_made, restore_dir, result, locals,
                   ProcessVars>>

\* line 132: the encrypted bytes are written
ArtifactWrite ==
    /\ pc = "writing"
    /\ backup_dir' = [backup_dir EXCEPT ![Final(backup_path)] =
                         Encrypt(key, backup_dir[Temp(backup_path)].zip)]
    /\ pc' = "rmtemp"
    /\ UNCHANGED <<fsvars, config, disk, dir_made, restore_dir, result, locals,
                   ProcessVars>>

\* line 134: os.remove(temp_archive); create_archive returns
RemoveTemp ==
    /\ pc = "rmtemp"
    /\ backup_dir' = [backup_dir EXCEPT ![Temp(backup_path)] = NoFile]
    /\ pc' = "persist"
    /\ UNCHANGED <<fsvars, config, disk, dir_made, restore_dir, result, locals,
                   ProcessVars>>

\* marker and history entry set while the artifact is still being written
PersistEarly ==
    /\ pc = "writing"
    /\ config' = Persisting(config, kind, clock, timestamp, backup_path, Len(file_list))
    /\ pc' = "save"
    /\ UNCHANGED <<fsvars, disk, dir_made, backup_dir, restore_dir, result, locals,
                   ProcessVars>>

\* lines 67-76 and 100-110: marker and history entry, in memory
Persist ==
    /\ pc = "persist"
    /\ config' = Persisting(config, kind, clock, timestamp, backup_path, Len(file_list))
    /\ pc' = "save"
    /\ UNCHANGED <<fsvars, disk, dir_made, backup_dir, restore_dir, result, locals,
                   ProcessVars>>

\* save_config, line 31: open(config_file, 'w') truncates the document
SaveOpen ==
    /\ pc = "save"
    /\ disk' = [st |-> "partial"]
    /\ pc' = "dump"
    /\ UNCHANGED <<fsvars, config, dir_made, backup_dir, restore_dir, result, locals,
                   ProcessVars>>

\* save_config, line 32: json.dump writes the document; the backup returns
\* backup_path
SaveDump ==
    /\ pc = "dump"
    /\ disk' = [st |-> "complete", doc |-> config]
    /\ Return([tag |-> "path", path |-> backup_path])
    /\ UNCHANGED <<fsvars, config, dir_made, backup_dir, restore_dir, locals,
                   ProcessVars>>

\* --------------------------------------------------------- restore_backup
\* a cipher that does not authenticate: any complete token decrypts, to
\* garbage under another key
DecryptOkUnauthenticated(c, k) == c.whole

\* self.cipher.decrypt, line 145: Fernet authenticates the token, so only a
\* complete token made with this key decrypts
DecryptOk(c, k) == c.whole /\ c.enc = k

\* ZipFile._extract_member drops the components "", "." and ".." of a
\* member name
Sanitize(arcname) == SelectSeq(arcname, LAMBDA x : x \notin {"", ".", ".."})

\* zipf.extractall(restore_dir), line 153, from member i on, into the files
\* `into` of restore_dir: a member whose sanitized name is empty is written
\* to restore_dir itself, which is a directory, and open() raises
\* IsADirectoryError
RECURSIVE ExtractAll(_, _, _)
ExtractAll(zip, i, into) ==
    IF i > Len(zip) THEN [raised |-> FALSE, files |-> into]
    ELSE IF Sanitize(zip[i].arcname) = <<>> THEN [raised |-> TRUE, files |-> into]
    ELSE ExtractAll(zip, i + 1,
                    {f \in into : f.path # Sanitize(zip[i].arcname)}
                    \cup {[path |-> Sanitize(zip[i].arcname), data |-> zip[i].data]})

\* lines 142-145 for an artifact of the backup directory, into a restore
\* directory that does not exist yet or is empty
restore_backup(bp) ==
    /\ CanCall
    /\ backup_dir[Final(bp)] # NoFile
    /\ called' = "restore"
    /\ ncalls' = ncalls + 1
    /\ backup_path' = bp
    /\ restore_dir' = [exists |-> FALSE, files |-> {}]
    /\ IF DecryptOk(backup_dir[Final(bp)], key)
       THEN /\ pc' = "r_temp"
            /\ result' = [tag |-> "running"]
       ELSE Return(Raised("InvalidToken"))
    /\ UNCHANGED <<fsvars, config, disk, dir_made, backup_dir, key, nrestarts,
                   kind, timestamp, file_list, touched, sched>>

\* lines 147-149: the decrypted archive is written to "<artifact>.temp.zip"
RestoreWriteTemp ==
    /\ pc = "r_temp"
    /\ backup_dir' = [backup_dir EXCEPT ![RestoreTemp(backup_path)] =
                         Content(0, TRUE, backup_dir[Final(backup_path)].zip)]
    /\ pc' = "r_extract"
    /\ UNCHANGED <<fsvars, config, disk, dir_made, restore_dir, result, locals,
                   ProcessVars>>

\* lines 151-154: makedirs and extractall; an exception leaves what was
\* extracted so far
RestoreExtract ==
    /\ pc = "r_extract"
    /\ LET got == ExtractAll(backup_dir[RestoreTemp(backup_path)].zip, 1, restore_dir.files)
       IN  /\ restore_dir' = [exists |-> TRUE, files |-> got.files]
           /\ IF got.raised
              THEN Return(Raised("IsADirectoryError"))
              ELSE /\ pc' = "r_rmtemp"
                   /\ UNCHANGED result
    /\ UNCHANGED <<fsvars, config, disk, dir_made, backup_dir, locals, ProcessVars>>

\* line 156: os.remove(temp_archive); restore_backup returns
RestoreRemoveTemp ==
    /\ pc = "r_rmtemp"
    /\ backup_dir' = [backup_dir EXCEPT ![RestoreTemp(backup_path)] = NoFile]
    /\ Return([tag |-> "restored"])
    /\ UNCHANGED <<fsvars, config, disk, dir_made, restore_dir, locals, ProcessVars>>

\* ----------------------------------------------------------- list_backups
\* line 167: item.endswith('.zip') and "тест" in item
IsListed(n) == n.ext \in {"", ".temp.zip"}

\* what list_backups reports for a backup directory, lines 166-170
Listing(bd) == {n \in Names : bd[n] # NoFile /\ IsListed(n)}

list_backups ==
    /\ CanCall
    /\ called' = "list"
    /\ ncalls' = ncalls + 1
    /\ IF dir_made
       THEN Return([tag |-> "listing", items |-> Listing(backup_dir)])
       ELSE Return([tag |-> "empty"])
    /\ UNCHANGED <<fsvars, config, disk, dir_made, backup_dir, restore_dir, key,
                   nrestarts, locals, touched, sched>>

\* ------------------------------------------------------- process lifetime
\* The process stops at any point (the command ends, an exception reaches
\* main, the machine loses power) and the next command constructs a new
\* BackupSystem, lines 12-16: the configuration is loaded from the document
\* and a new key is generated.  json.load raises on a truncated document
\* and no BackupSystem is constructed.

\* a key read back from where the previous process left it
StoredKey(k) == k

\* Fernet.generate_key(), line 15: 32 random bytes, a key no earlier process
\* had; keys are numbered in the order of their generation
GenerateKey(k) == k + 1

Restart ==
    /\ pc # "failed_load"
    /\ MayAct
    /\ nrestarts' = nrestarts + 1
    /\ IF disk.st = "partial"
       THEN /\ pc' = "failed_load"
            /\ config' = DefaultConfig
            /\ key' = key
            /\ result' = Raised("JSONDecodeError")
       ELSE /\ pc' = "idle"
            /\ config' = load_config(disk)
            /\ key' = GenerateKey(key)
            /\ result' = [tag |-> "none"]
    /\ called' = "none"
    /\ UNCHANGED <<fsvars, disk, dir_made, backup_dir, restore_dir, ncalls, locals,
                   touched, sched>>

\* ------------------------------------------------------------------- Next
Next ==
    \/ Tick
    \/ \E p \in Paths : WriteFile(p)
    \/ \E p \in Paths, m \in {"noread", "dangling"} : BreakFile(p, m)
    \/ full_backup
    \/ IncrementalCommand
    \/ ZipOpen
    \/ ZipWrite
    \/ ArtifactOpen
    \/ ArtifactWrite
    \/ RemoveTemp
    \/ Persist
    \/ SaveOpen
    \/ SaveDump
    \/ \E bp \in [kind : {"full", "inc"}, label : Labels] : restore_backup(bp)
    \/ RestoreWriteTemp
    \/ RestoreExtract
    \/ RestoreRemoveTemp
    \/ list_backups
    \/ Restart

Spec == Init /\ [][Next]_vars

\* ----------------------------------------------------------- set_schedule
\* "schedule" on the command line: the process does nothing but the loop of
\* set_schedule, lines 172-184.  sched.loop is the position of the loop:
\* "pending" before schedule.run_pending(), "job" inside job(), "sleep"
\* before time.sleep(1), "raised" once an exception of the job left the
\* loop.  sched.inflight counts the invocations of job() that have started
\* and not ended.

\* the intervals the loop is started with, in ticks
Intervals == {1, 2}

\* line 177: schedule.every(interval_hours).hours.do(job) registers
\* the job with its first run one interval from now
set_schedule(interval_hours) ==
    /\ Idle
    /\ sched.loop = "off"
    /\ sched' = [loop |-> "pending", interval |-> interval_hours,
                 next_run |-> clock + interval_hours, inflight |-> 0]
    /\ UNCHANGED <<fsvars, config, disk, dir_made, backup_dir, restore_dir, key, pc,
                   called, result, ncalls, nrestarts, locals, touched>>

\* the job is due: Job.should_run of the schedule library
ShouldRun == clock >= sched.next_run

\* a run_pending that starts a due job in a thread of its own and returns
RunPendingThreaded ==
    /\ sched.loop = "pending"
    /\ IF ShouldRun
       THEN /\ MayAct
            /\ IF Idle
               THEN incremental_backup
               ELSE UNCHANGED <<fsvars, config, disk, dir_made, backup_dir,
                                restore_dir, key, pc, called, result, ncalls,
                                nrestarts, locals, touched>>
            /\ sched' = [sched EXCEPT !.loop = "sleep",
                                      !.next_run = clock + sched.interval,
                                      !.inflight = @ + 1]
       ELSE /\ sched' = [sched EXCEPT !.loop = "sleep"]
            /\ UNCHANGED <<fsvars, config, disk, dir_made, backup_dir, restore_dir,
                           key, pc, called, result, ncalls, nrestarts, locals,
                           touched>>

\* line 183, schedule.run_pending(): a due job is called in this thread,
\* lines 173-175, and run_pending does not return before the job does; a job
\* that is not due is left alone
RunPending ==
    /\ sched.loop = "pending"
    /\ IF ShouldRun
       THEN /\ incremental_backup
            /\ sched' = [sched EXCEPT !.loop = "job", !.inflight = @ + 1]
       ELSE /\ sched' = [sched EXCEPT !.loop = "sleep"]
            /\ UNCHANGED <<fsvars, config, disk, dir_made, backup_dir, restore_dir,
                           key, pc, called, result, ncalls, nrestarts, locals,
                           touched>>

\* incremental_backup returned to job(): the schedule library sets the next
\* run one interval from now and run_pending returns; an exception of the
\* backup leaves job(), run_pending and the loop
JobReturn ==
    /\ sched.loop = "job"
    /\ Idle
    /\ IF result.tag = "raised"
       THEN sched' = [sched EXCEPT !.loop = "raised", !.inflight = @ - 1]
       ELSE sched' = [sched EXCEPT !.loop = "sleep",
                                   !.next_run = clock + sched.interval,
                                   !.inflight = @ - 1]
    /\ UNCHANGED <<fsvars, config, disk, dir_made, backup_dir, restore_dir, key, pc,
                   called, result, ncalls, nrestarts, locals, touched>>

\* line 184, time.sleep(1): time passes before the next run_pending
Sleep ==
    /\ sched.loop = "sleep"
    /\ MayAct
    /\ clock' = clock + 1
    /\ sched' = [sched EXCEPT !.loop = "pending"]
    /\ UNCHANGED <<files, nenv, config, disk, dir_made, backup_dir, restore_dir, key,
                   pc, called, result, ncalls, nrestarts, locals, touched>>

NextScheduled ==
    \/ \E h \in Intervals : set_schedule(h)
    \/ RunPending
    \/ JobReturn
    \/ Sleep
    \/ ZipOpen
    \/ ZipWrite
    \/ ArtifactOpen
    \/ ArtifactWrite
    \/ RemoveTemp
    \/ Persist
    \/ SaveOpen
    \/ SaveDump
    \/ Tick
    \/ \E p \in Paths : WriteFile(p)
    \/ \E p \in Paths, m \in {"noread", "dangling"} : BreakFile(p, m)

SpecScheduled == Init /\ [][NextScheduled]_vars

\* ================================================================ claims
ToSet(s) == {s[i] : i \in 1..Len(s)}

\* the files of the source tree, and those modified after instant t
Existing == {p \in Paths : files[p] # NoFile}
ModifiedSince(t) == {p \in Existing : files[p].mtime > t}
AllStatable == \A p \in Existing : files[p].mode # "dangling"

\* a step that is a call of incremental_backup()
IncrementalCall == ncalls' = ncalls + 1 /\ called' = "incremental"

\* the previous call was incremental_backup() and returned normally
AfterIncremental ==
    pc = "idle" /\ called = "incremental" /\ result.tag \in {"None", "path"}

NothingMutated ==
    /\ UNCHANGED <<config, disk, backup_dir, dir_made>>
    /\ Listing(backup_dir') = Listing(backup_dir)

\* C1: an incremental_backup() that finds a marker and no file modified after
\* the marker's time returns None and leaves the configuration in memory,
\* the configuration document, the marker, the history and the backup
\* directory as they were.
C1_NoOpPath ==
    [][(/\ IncrementalCall
        /\ config.last_backup # None
        /\ AllStatable
        /\ ModifiedSince(config.last_backup.time) = {})
       => (/\ pc' = "idle"
           /\ result' = [tag |-> "None"]
           /\ NothingMutated)]_vars

C1_Witness ==
    /\ pc = "idle"
    /\ called = "incremental"
    /\ result = [tag |-> "None"]
    /\ config.last_backup # None
    /\ Len(config.backup_history) = 1

\* C2 as stated: of two incremental_backup() calls in a row with the source
\* tree untouched, the first archives and the second returns None and
\* mutates nothing (archiving happens exactly once).
C2_ExactlyOnce ==
    [][(IncrementalCall /\ AfterIncremental /\ ~touched)
       => (/\ result.tag = "path"
           /\ result' = [tag |-> "None"]
           /\ NothingMutated)]_vars

\* C2 amended: the second of two incremental_backup() calls in a row, with
\* the source tree untouched since the first call enumerated it, returns
\* None, mutates nothing and adds nothing list_backups() reports: archiving
\* happens at most once.
C2_AtMostOnce ==
    [][(IncrementalCall /\ AfterIncremental /\ ~touched)
       => (/\ pc' = "idle"
           /\ result' = [tag |-> "None"]
           /\ NothingMutated)]_vars

C2_Witness ==
    /\ pc = "idle"
    /\ called = "incremental"
    /\ result = [tag |-> "None"]
    /\ kind = "incremental"
    /\ ~touched
    /\ nrestarts = 0
    /\ ncalls = 3
    /\ Len(config.backup_history) = 2

\* C3: get_changed_files(since) returns, once each, exactly the files whose
\* modification time is greater than since, and every file for since = None.
C3_ChangedFilesExact ==
    AllStatable =>
        /\ \A t \in 0..clock :
              LET got == get_changed_files(files, At(t))
              IN  /\ ~got.raised
                  /\ ToSet(got.list) = ModifiedSince(t)
                  /\ Len(got.list) = Cardinality(ModifiedSince(t))
        /\ LET all == get_changed_files(files, None)
           IN  /\ ~all.raised
               /\ ToSet(all.list) = Existing
               /\ Len(all.list) = Cardinality(Existing)

\* an incremental backup enumerated its files while one file carried the
\* marker's time (left out) and another the next instant (taken)
C3_Witness ==
    /\ pc = "archive"
    /\ kind = "incremental"
    /\ ~touched
    /\ \E p, q \in Existing :
          /\ files[p].mtime = config.last_backup.time
          /\ p \notin ToSet(file_list)
          /\ files[q].mtime = config.last_backup.time + 1
          /\ q \in ToSet(file_list)

Last(s) == s[Len(s)]

\* the complete artifact of this process at path bp, or NoFile
Artifact(bp) ==
    IF /\ backup_dir[Final(bp)] # NoFile
       /\ backup_dir[Final(bp)].whole
       /\ backup_dir[Final(bp)].enc = key
    THEN backup_dir[Final(bp)]
    ELSE NoFile

\* C4: incremental_backup() without a marker does what full_backup() does:
\* it creates the backup directory, enumerates every file and archives under
\* the full-kind name; when it returns, it returns the artifact's path, the
\* artifact is on disk, and marker and last history entry are of kind full.
C4_FirstIncrementalIsFull ==
    /\ [][(IncrementalCall /\ config.last_backup = None)
          => (/\ pc' = "archive"
              /\ kind' = "full"
              /\ backup_path'.kind = "full"
              /\ dir_made'
              /\ ToSet(file_list') = Existing
              /\ Len(file_list') = Cardinality(Existing)
              /\ UNCHANGED <<config, disk, backup_dir>>)]_vars
    /\ [](called = "incremental" /\ kind = "full" /\ result.tag = "path"
          => (/\ result.path.kind = "full"
              /\ Artifact(result.path) # NoFile
              /\ Len(Artifact(result.path).zip) = Len(file_list)
              /\ config.last_backup # None
              /\ config.last_backup.type = "full"
              /\ config.last_backup.files_count = Len(file_list)
              /\ Last(config.backup_history).type = "full"
              /\ Last(config.backup_history).path = result.path
              /\ disk = [st |-> "complete", doc |-> config]))

C4_Witness ==
    /\ called = "incremental"
    /\ kind = "full"
    /\ result.tag = "path"
    /\ Len(file_list) = 2

\* C5: incremental_backup() with a marker and at least one file modified after
\* the marker's time archives exactly those files; when it returns, the
\* artifact holds one member per such file and no other, the marker is of
\* kind incremental with that count, and the last history entry is of kind
\* incremental with the same count.
C5_IncrementalArchive ==
    /\ [][(/\ IncrementalCall
           /\ config.last_backup # None
           /\ AllStatable
           /\ ModifiedSince(config.last_backup.time) # {})
          => (/\ pc' = "archive"
              /\ kind' = "incremental"
              /\ backup_path'.kind = "inc"
              /\ ToSet(file_list') = ModifiedSince(config.last_backup.time)
              /\ Len(file_list') = Cardinality(ModifiedSince(config.last_backup.time)))]_vars
    /\ [](kind = "incremental" /\ result.tag = "path"
          => (/\ Artifact(result.path) # NoFile
              /\ {m.data.file : m \in ToSet(Artifact(result.path).zip)} = ToSet(file_list)
              /\ Len(Artifact(result.path).zip) = Len(file_list)
              /\ config.last_backup.type = "incremental"
              /\ config.last_backup.files_count = Len(file_list)
              /\ Last(config.backup_history).type = "incremental"
              /\ Last(config.backup_history).path = result.path
              /\ Last(config.backup_history).files_count = <<Len(file_list)>>))

C5_Witness ==
    /\ kind = "incremental"
    /\ result.tag = "path"
    /\ Len(file_list) = 1
    /\ Cardinality(Existing) = 2

\* the directory of a file, and the deepest directory above every file of S
Dir(p) == SubSeq(p, 1, Len(p) - 1)
IsPrefix(d, p) == Len(d) <= Len(p) /\ SubSeq(p, 1, Len(d)) = d
CommonAncestor(S) ==
    CHOOSE d \in {SubSeq(p, 1, n) : p \in S, n \in 0..2} :
        /\ \A p \in S : IsPrefix(d, Dir(p))
        /\ \A e \in {SubSeq(p, 1, n) : p \in S, n \in 0..2} :
              (\A p \in S : IsPrefix(e, Dir(p))) => Len(e) <= Len(d)

\* the files an archive should restore to: each member's bytes under the
\* path of its file below the common ancestor
RestoredTree(zip) ==
    LET S == {m.data.file : m \in ToSet(zip)}
    IN  {[path |-> SubSeq(m.data.file, Len(CommonAncestor(S)) + 1, Len(m.data.file)),
          data |-> m.data] : m \in ToSet(zip)}

\* C6: restore_backup of a complete artifact this process made from a
\* non-empty file list succeeds and leaves in the (empty) restore directory
\* every archived file, with its bytes, under its path below the common
\* ancestor of the archived files.
C6_RoundTrip ==
    (/\ pc = "idle"
     /\ called = "restore"
     /\ Artifact(backup_path) # NoFile
     /\ Artifact(backup_path).zip # <<>>)
    => (/\ result = [tag |-> "restored"]
        /\ restore_dir.exists
        /\ restore_dir.files = RestoredTree(Artifact(backup_path).zip))

\* the same for archives of two or more files
C6_RoundTripOfSeveral ==
    (/\ pc = "idle"
     /\ called = "restore"
     /\ Artifact(backup_path) # NoFile
     /\ Len(Artifact(backup_path).zip) >= 2)
    => (/\ result = [tag |-> "restored"]
        /\ restore_dir.exists
        /\ restore_dir.files = RestoredTree(Artifact(backup_path).zip))

\* C7: the configuration in memory changes only in the step after
\* create_archive returned, when the complete encrypted artifact of the
\* running backup is on disk, and by appending the entry of that artifact;
\* the configuration document changes only in save_config after that step,
\* and to the configuration in memory.  A backup that fails earlier leaves
\* marker, history and document as they were.
C7_PersistLast ==
    [][/\ (config' # config /\ nrestarts' = nrestarts)
          => (/\ pc = "persist"
              /\ Artifact(backup_path) # NoFile
              /\ UNCHANGED <<backup_dir, disk>>
              /\ Len(config'.backup_history) = Len(config.backup_history) + 1
              /\ Last(config'.backup_history).path = backup_path
              /\ Last(config'.backup_history).type = config'.last_backup.type)
       /\ (disk' # disk)
          => (/\ pc \in {"save", "dump"}
              /\ Artifact(backup_path) # NoFile
              /\ Last(config.backup_history).path = backup_path
              /\ UNCHANGED <<config, backup_dir>>
              /\ disk'.st = "complete" => disk'.doc = config)]_vars

\* a backup failed in create_archive after an earlier one completed: its
\* temporary archive is left, the configuration is that of the earlier one
C7_Witness ==
    /\ pc = "idle"
    /\ called \in {"full", "incremental"}
    /\ result = Raised("OSError")
    /\ backup_dir[Temp(backup_path)] # NoFile
    /\ Len(config.backup_history) = 1
    /\ disk = [st |-> "complete", doc |-> config]

\* C8: after a process stop the configuration document is a complete
\* document (or absent), and load_config succeeds.
C8_SaveAtomic ==
    /\ nrestarts > 0 => disk.st # "partial"
    /\ pc # "failed_load"

\* C9: after a process stop, a file under an artifact's final name is a
\* complete encrypted artifact (no backup being in the middle of writing
\* one).
C9_NoPartialArtifact ==
    (nrestarts > 0 /\ pc # "writing")
    => \A n \in Names :
          (n.ext = "" /\ backup_dir[n] # NoFile) => backup_dir[n].whole

\* C10: every step of a process leaves backup_history as it is or appends
\* one entry to it.
C10_AppendOnly ==
    [][nrestarts' = nrestarts
       => \/ config'.backup_history = config.backup_history
          \/ /\ Len(config'.backup_history) = Len(config.backup_history) + 1
             /\ SubSeq(config'.backup_history, 1, Len(config.backup_history))
                    = config.backup_history]_vars

\* a full and an incremental backup were recorded and list_backups ran: the
\* history holds both entries in the order of the backups
C10_Witness ==
    /\ Len(config.backup_history) = 2
    /\ config.backup_history[1].type = "full"
    /\ config.backup_history[2].type = "incremental"
    /\ pc = "idle"
    /\ called = "list"

\* a step that is a call of restore_backup()
RestoreCall == ncalls' = ncalls + 1 /\ called' = "restore"

\* C11: restore_backup() of an artifact that was encrypted with another key
\* or is not a complete token ends at once with InvalidToken (no other
\* failure of the program carries it) and writes nothing: no temporary file,
\* no restore directory, no restored file; backup directory, configuration
\* and document stay as they were.
C11_DecryptFailureWritesNothing ==
    /\ [][(/\ RestoreCall
           /\ \/ backup_dir[Final(backup_path')].enc # key
              \/ ~backup_dir[Final(backup_path')].whole)
          => (/\ pc' = "idle"
              /\ result' = Raised("InvalidToken")
              /\ UNCHANGED <<backup_dir, config, disk, dir_made>>
              /\ ~restore_dir'.exists
              /\ restore_dir'.files = {})]_vars
    /\ [](result = Raised("InvalidToken")
          => (/\ called = "restore"
              /\ ~DecryptOk(backup_dir[Final(backup_path)], key)))

\* a new process was asked to restore a complete artifact of the previous
\* process and failed to decrypt it
C11_Witness ==
    /\ pc = "idle"
    /\ called = "restore"
    /\ result = Raised("InvalidToken")
    /\ nrestarts = 1
    /\ backup_dir[Final(backup_path)].whole
    /\ backup_dir[Final(backup_path)].enc # key
    /\ backup_dir[RestoreTemp(backup_path)] = NoFile
    /\ ~restore_dir.exists

\* the same for an artifact cut short by a process stop
C11_WitnessTruncated ==
    /\ pc = "idle"
    /\ called = "restore"
    /\ result = Raised("InvalidToken")
    /\ ~backup_dir[Final(backup_path)].whole

\* C12: when the archiving loop of a backup meets a file of its list that
\* cannot be read, the backup ends with the error: whatever is under the
\* artifact's final name stays as it was (nothing is written there), and
\* marker, history and configuration document are unchanged.
C12_UnreadableAborts ==
    [][(/\ pc = "zipping"
        /\ pc' # "zipping"
        /\ nrestarts' = nrestarts
        /\ \E i \in 1..Len(file_list) : ~Readable(files[file_list[i]]))
       => (/\ pc' = "idle"
           /\ result' = Raised("OSError")
           /\ backup_dir'[Final(backup_path)] = backup_dir[Final(backup_path)]
           /\ UNCHANGED <<config, disk>>)]_vars

\* the first backup ever failed on a file that became unreadable after it
\* was enumerated: no artifact, default configuration, no document
C12_Witness ==
    /\ pc = "idle"
    /\ called = "full"
    /\ result = Raised("OSError")
    /\ touched
    /\ \E i \in 1..Len(file_list) : ~Readable(files[file_list[i]])
    /\ backup_dir[Final(backup_path)] = NoFile
    /\ config = DefaultConfig
    /\ disk.st = "absent"

\* the files whose modification time can be read and is after instant t
StatableModifiedSince(t) ==
    {p \in Existing : ~StatFails(files[p]) /\ files[p].mtime > t}

\* C13: in change detection an entry whose modification time cannot be read
\* is skipped: the get_changed_files of an incremental_backup() does not
\* raise and returns every other changed file, and the backup does not end
\* with the error.
C13_UnstatableSkipped ==
    [][(IncrementalCall /\ config.last_backup # None)
       => (/\ ~get_changed_files(files, At(config.last_backup.time)).raised
           /\ result'.tag # "raised"
           /\ StatableModifiedSince(config.last_backup.time) # {}
                 => /\ pc' = "archive"
                    /\ StatableModifiedSince(config.last_backup.time)
                           \subseteq ToSet(file_list'))]_vars

\* the artifacts the history of the configuration refers to
Recorded(cfg) == {cfg.backup_history[i].path : i \in 1..Len(cfg.backup_history)}

\* C14: every process has a key of its own (the n-th process after the first
\* holds the n-th key generated after the first), the configuration document
\* holds marker and history and no key, restore_backup() gets past decryption
\* exactly for the artifacts encrypted by the process that calls it, and
\* fails with InvalidToken on a recorded artifact of an earlier process.
C14_KeyPerProcess ==
    /\ [](pc # "failed_load" => key = nrestarts + 1)
    /\ [](disk.st = "complete"
          => DOMAIN disk.doc = {"last_backup", "backup_history"})
    /\ [][RestoreCall
          => (/\ pc' = "r_temp" <=> backup_dir[Final(backup_path')].enc = nrestarts + 1
              /\ pc' # "r_temp" => result' = Raised("InvalidToken")
              /\ (/\ backup_path' \in Recorded(config)
                  /\ backup_dir[Final(backup_path')].enc <= nrestarts)
                 => result' = Raised("InvalidToken"))]_vars

\* a process loaded the history of its predecessor and failed to decrypt a
\* complete artifact recorded there
C14_Witness ==
    /\ pc = "idle"
    /\ called = "restore"
    /\ result = Raised("InvalidToken")
    /\ nrestarts = 1
    /\ backup_path \in Recorded(config)
    /\ backup_dir[Final(backup_path)].whole
    /\ backup_dir[Final(backup_path)].enc = 1
    /\ key = 2

\* and a process got past decryption of an artifact of its own
C14_WitnessOwn ==
    /\ pc = "r_temp"
    /\ nrestarts = 1
    /\ backup_dir[Final(backup_path)].enc = 2

\* C15: under set_schedule at most one invocation of the job is in progress;
\* while a backup is between its enumeration and its return the loop is
\* inside that job and not at run_pending, and a backup starts only when no
\* invocation is in progress, however late the next run already is.
C15_NoOverlap ==
    /\ [](sched.inflight <= 1)
    /\ [](pc # "idle" => (sched.loop = "job" /\ sched.inflight = 1))
    /\ [][IncrementalCall => (pc = "idle" /\ sched.inflight = 0)]_vars

\* a scheduled backup is still archiving or about to persist when its next
\* run is already due (the run takes longer than the interval)
C15_Witness ==
    /\ sched.loop = "job"
    /\ pc \in {"zipping", "persist"}
    /\ clock >= sched.next_run + sched.interval

\* a second scheduled backup started after the first one returned
C15_WitnessSecondRun ==
    /\ sched.loop = "job"
    /\ pc = "archive"
    /\ Len(config.backup_history) = 1

\* C16: a full_backup() that enumerated no file does not fail; it appends
\* one history entry, and when it has returned the artifact is a complete
\* encrypted archive without members, the marker is of kind full with count
\* 0, the last history entry is that of the artifact and the document holds
\* the configuration; restoring the artifact succeeds and restores nothing.
C16_EmptyFullBackup ==
    /\ [](called = "full" /\ file_list = <<>> => result.tag # "raised")
    /\ [][(pc = "persist" /\ pc' = "save" /\ kind = "full" /\ file_list = <<>>)
          => (/\ Len(config'.backup_history) = Len(config.backup_history) + 1
              /\ Last(config'.backup_history).type = "full")]_vars
    /\ [](called = "full" /\ result.tag = "path" /\ file_list = <<>>
          => (/\ Artifact(result.path) # NoFile
              /\ Artifact(result.path).zip = <<>>
              /\ config.last_backup.type = "full"
              /\ config.last_backup.files_count = 0
              /\ Last(config.backup_history).path = result.path
              /\ Last(config.backup_history).type = "full"
              /\ disk = [st |-> "complete", doc |-> config]))
    /\ [](/\ pc = "idle"
          /\ called = "restore"
          /\ Artifact(backup_path) # NoFile
          /\ Artifact(backup_path).zip = <<>>
          => (/\ result = [tag |-> "restored"]
              /\ restore_dir = [exists |-> TRUE, files |-> {}]))

\* full_backup() returned on an empty source tree
C16_Witness ==
    /\ pc = "idle"
    /\ called = "full"
    /\ result.tag = "path"
    /\ file_list = <<>>
    /\ Existing = {}
    /\ Len(config.backup_history) = 1

\* and its artifact was restored
C16_WitnessRestored ==
    /\ pc = "idle"
    /\ called = "restore"
    /\ result = [tag |-> "restored"]
    /\ Artifact(backup_path).zip = <<>>

\* the marker of a configuration is absent exactly when its history is
\* empty, and otherwise has the kind of the last entry and, where the entry
\* records a file count, that count
MarkerIsLastEntry(cfg) ==
    /\ cfg.last_backup = None <=> cfg.backup_history = <<>>
    /\ cfg.backup_history # <<>>
          => /\ cfg.last_backup.type = Last(cfg.backup_history).type
             /\ Last(cfg.backup_history).files_count # <<>>
                   => Last(cfg.backup_history).files_count
                          = <<cfg.last_backup.files_count>>

\* C17: in every state the marker of the configuration in memory, and of a
\* complete configuration document, describes the last history entry; the
\* step that records a backup sets the marker to that backup's kind, the
\* current time and its file count.
C17_MarkerIsLastBackup ==
    /\ [](MarkerIsLastEntry(config))
    /\ [](disk.st = "complete" => MarkerIsLastEntry(disk.doc))
    /\ [][(config' # config /\ nrestarts' = nrestarts)
          => config'.last_backup =
                 [type |-> kind, time |-> clock, files_count |-> Len(file_list)]]_vars

\* an incremental backup replaced the marker of a full backup of two files
C17_Witness ==
    /\ pc = "idle"
    /\ Len(config.backup_history) = 2
    /\ config.backup_history[1].type = "full"
    /\ config.last_backup.type = "incremental"
    /\ config.last_backup.files_count = 1
    /\ disk = [st |-> "complete", doc |-> config]
    /\ called = "incremental"

\* a new process loaded marker and history from the document
C17_WitnessLoaded ==
    /\ nrestarts = 1
    /\ pc = "idle"
    /\ config.last_backup # None
    /\ Len(config.backup_history) = 1

\* the present bytes of source file p are a member of a complete artifact
Archived(p) ==
    \E n \in Names :
        /\ n.ext = ""
        /\ backup_dir[n] # NoFile
        /\ backup_dir[n].whole
        /\ \E i \in 1..Len(backup_dir[n].zip) : backup_dir[n].zip[i].data = files[p].data

\* C18: no modification is missed: an incremental_backup() that finds a
\* marker takes into its list every file whose present bytes are in no
\* artifact (files modified at the very instant of the marker apart, which
\* the clock cannot order).
C18_NoModificationMissed ==
    [][(IncrementalCall /\ config.last_backup # None /\ AllStatable)
       => \A p \in Existing :
             files[p].mtime # config.last_backup.time
                => \/ Archived(p)
                   \/ (pc' = "archive" /\ p \in ToSet(file_list'))]_vars

\* C19: the entries of the history refer to pairwise different artifact
\* paths, and a backup opens its artifact for writing only at a path no
\* history entry refers to.
C19_FreshArtifactPath ==
    /\ [](\A i, j \in 1..Len(config.backup_history) :
             i # j => config.backup_history[i].path # config.backup_history[j].path)
    /\ [][(pc = "encrypt" /\ pc' = "writing")
          => backup_path \notin Recorded(config)]_vars

\* C20: when no operation is running in a process that was never stopped,
\* whatever its operations returned or raised, the backup directory holds no
\* plaintext file (no ".temp" and no ".temp.zip" file), and what
\* list_backups reports are encrypted artifacts.
C20_NoPlaintextAtRest ==
    (pc = "idle" /\ nrestarts = 0)
    => /\ \A n \in Names : backup_dir[n] # NoFile => n.ext = "" /\ backup_dir[n].enc # 0
       /\ \A n \in Listing(backup_dir) : backup_dir[n].enc # 0

====
